---- MODULE Spec2Model ----
(***************************************************************************)
(* Model of src/main.rs: main() rebinding a &str, then strings() creating, *)
(* growing, moving, dropping and cloning heap-backed Strings.              *)
(*                                                                         *)
(* A String is a stack record (pointer, length) that owns one block of the *)
(* heap.  The allocator may hand out any free address, and push_str may    *)
(* grow the block in place or move it: these are the only choices in the   *)
(* program, control flow itself is a straight line.                        *)
(***************************************************************************)
EXTENDS Integers, Sequences, FiniteSets, TLC

\* ---------------------------------------------------------------- bounds
NumAddr == 4        \* heap addresses the allocator can hand out
MaxLen == 1         \* longest text drawn as an input of the String operations
MaxPush == 2        \* push_str calls explored after a clone

Addr == 1..NumAddr
Alphabet == {"a", "b"}

\* ------------------------------------------------------------- literals
Wow == <<"w", "o", "w">>
Howw == <<"h", "o", "w", "w">>
Hello == <<"h", "e", "l", "l", "o">>
CommaWorld == <<",", " ", "w", "o", "r", "l", "d">>
FmtS1 == <<"s", "1", " ", "=", " ">>
FmtS2 == <<",", " ", "s", "2", " ", "=", " ">>

\* what a read of memory that is not owned by a live value yields
Garbage == <<"<invalid>">>

\* the string literals hardcoded in the executable
StaticInit == [wow |-> Wow, howw |-> Howw]

\* the let-bindings of strings(); shadowed names carry their line
Bindings == {"str", "s1_69", "s2_70", "s1_92", "s2_93"}

VARIABLES pc, refs, static, heap, bind, out, reads, frees, allocs, unwind,
          calls, returns, pushes, exit

vars == <<pc, refs, static, heap, bind, out, reads, frees, allocs, unwind,
          calls, returns, pushes, exit>>

\* ----------------------------------------------------------- the heap
FreeBlock == [used |-> FALSE, unit |-> 0, bytes |-> <<>>]

Unbound == [st |-> "uninit", ptr |-> 0, len |-> 0, unit |-> 0]

FreeAddrs(h) == {a \in Addr : ~h[a].used}

\* b is a live owner whose block is still the one it was given
Valid(h, b) ==
    /\ b.st = "live"
    /\ b.ptr \in Addr
    /\ h[b.ptr].used
    /\ h[b.ptr].unit = b.unit

\* the text seen through b
Value(h, b) ==
    IF Valid(h, b) /\ b.len <= Len(h[b.ptr].bytes)
    THEN SubSeq(h[b.ptr].bytes, 1, b.len)
    ELSE Garbage

\* String::from(text): allocate block a (storage unit u) and copy text in
StringFrom(h, text, a, u) ==
    [heap |-> [h EXCEPT ![a] = [used |-> TRUE, unit |-> u, bytes |-> text]],
     dst  |-> [st |-> "live", ptr |-> a, len |-> Len(text), unit |-> u]]

PushStrNoAppend(h, b, suffix, a2) ==
    [heap |-> h, dst |-> b]

\* b.push_str(suffix): the block grows in place (a2 = b.ptr) or is moved to
\* the free address a2; it stays the same storage unit.  The first branch
\* (a push through a binding that owns nothing) cannot happen in the program
\* as compiled: the borrow checker rejects it (lines 80-84)
PushStr(h, b, suffix, a2) ==
    IF ~Valid(h, b)
    THEN [heap |-> h, dst |-> [b EXCEPT !.len = b.len + Len(suffix)]]
    ELSE LET text == Value(h, b) \o suffix
             blk == [used |-> TRUE, unit |-> b.unit, bytes |-> text]
         IN [heap |-> IF a2 = b.ptr
                      THEN [h EXCEPT ![a2] = blk]
                      ELSE [h EXCEPT ![b.ptr] = FreeBlock, ![a2] = blk],
             dst  |-> [b EXCEPT !.ptr = a2, !.len = Len(text)]]

MoveKeepSource(src) ==
    [src |-> src, dst |-> src]

\* let dst = src: the stack record is copied and src is invalidated
Move(src) ==
    [src |-> [src EXCEPT !.st = "moved"], dst |-> src]

StringCloneShallow(h, src, a, u) ==
    [heap |-> h, src |-> src, dst |-> src]

StringCloneMoves(h, src, a, u) ==
    [heap |-> h, src |-> [src EXCEPT !.st = "moved"], dst |-> src]

\* src.clone(): a new block a (storage unit u) with a copy of src's bytes
StringClone(h, src, a, u) ==
    [heap |-> [h EXCEPT ![a] = [used |-> TRUE, unit |-> u,
                                bytes |-> Value(h, src)]],
     src  |-> src,
     dst  |-> [st |-> "live", ptr |-> a, len |-> src.len, unit |-> u]]

\* <String as Drop>::drop: give b's block back to the allocator
Dealloc(h, b) ==
    IF Valid(h, b) THEN [h EXCEPT ![b.ptr] = FreeBlock] ELSE h

ExplicitDropForgets(h, b, name, fr) ==
    [heap |-> h, src |-> [b EXCEPT !.st = "moved"], frees |-> fr]

\* drop(b): b is moved into drop's parameter, whose scope ends at once
ExplicitDrop(h, b, name, fr) ==
    [heap  |-> Dealloc(h, b),
     src   |-> [b EXCEPT !.st = "moved"],
     frees |-> Append(fr, [unit |-> b.unit, by |-> name, at |-> "L71"])]

DropOrderLeaksStr == <<"s2_93", "s1_92", "s2_70", "s1_69">>

\* locals of strings() are dropped in reverse order of declaration
DropOrder == <<"s2_93", "s1_92", "s2_70", "s1_69", "str">>

AssignWritesThrough(r, st, name, lit) ==
    [refs |-> [r EXCEPT ![name] = lit],
     static |-> IF r[name] \in DOMAIN st
                THEN [st EXCEPT ![r[name]] = st[lit]] ELSE st]

\* name = "literal" for a &str: only the reference changes
Assign(r, st, name, lit) ==
    [refs |-> [r EXCEPT ![name] = lit], static |-> st]

\* the text a &str binding refers to
RefValue(r, st, name) ==
    IF r[name] \in DOMAIN st THEN st[r[name]] ELSE Garbage

StringsEntrySkipsBody == "L52"

\* where the call at line 51 transfers control
StringsEntry == "L55"

\* ------------------------------------------------------------- Init
Init ==
    /\ pc = "L41"
    /\ refs = [s |-> "unbound", x |-> "unbound"]
    /\ static = StaticInit
    /\ heap = [a \in Addr |-> FreeBlock]
    /\ bind = [b \in Bindings |-> Unbound]
    /\ out = <<>>
    /\ reads = <<>>
    /\ frees = <<>>
    /\ allocs = <<>>
    /\ unwind = 1
    /\ calls = 0
    /\ returns = 0
    /\ pushes = 0
    /\ exit = "running"

\* ------------------------------------------------------------- main()
Main41 ==
    /\ pc = "L41"
    /\ LET r == Assign(refs, static, "s", "wow")
       IN refs' = r.refs /\ static' = r.static
    /\ pc' = "L44"
    /\ UNCHANGED <<heap, bind, out, reads, frees, allocs, unwind, calls,
                   returns, pushes, exit>>

\* println!("{name}") of a &str binding
PrintRef(name, line, next) ==
    /\ pc = line
    /\ out' = Append(out, RefValue(refs, static, name))
    /\ reads' = Append(reads, [line |-> line, binding |-> name,
                               valid |-> refs[name] \in DOMAIN static])
    /\ pc' = next
    /\ UNCHANGED <<refs, static, heap, bind, frees, allocs, unwind, calls,
                   returns, pushes, exit>>

Main44 == PrintRef("s", "L44", "L45")

Main45 ==
    /\ pc = "L45"
    /\ LET r == Assign(refs, static, "s", "howw")
       IN refs' = r.refs /\ static' = r.static
    /\ pc' = "L47"
    /\ UNCHANGED <<heap, bind, out, reads, frees, allocs, unwind, calls,
                   returns, pushes, exit>>

Main47 == PrintRef("s", "L47", "L49")

\* let x = s: &str is Copy, s stays valid
Main49 ==
    /\ pc = "L49"
    /\ refs' = [refs EXCEPT !["x"] = refs["s"]]
    /\ pc' = "L50"
    /\ UNCHANGED <<static, heap, bind, out, reads, frees, allocs, unwind,
                   calls, returns, pushes, exit>>

Main50 == PrintRef("x", "L50", "L51")

Main51 ==
    /\ pc = "L51"
    /\ calls' = calls + 1
    /\ pc' = StringsEntry
    /\ UNCHANGED <<refs, static, heap, bind, out, reads, frees, allocs,
                   unwind, returns, pushes, exit>>

\* closing brace of main: s and x are references, nothing is released
Main52 ==
    /\ pc = "L52"
    /\ pc' = "exited"
    /\ exit' = "success"
    /\ UNCHANGED <<refs, static, heap, bind, out, reads, frees, allocs,
                   unwind, calls, returns, pushes>>

\* ------------------------------------------------------------ strings()
\* let name = String::from(text)
LetFrom(name, text, u, line, next) ==
    /\ pc = line
    /\ \E a \in FreeAddrs(heap) :
          LET r == StringFrom(heap, text, a, u)
          IN /\ heap' = r.heap
             /\ bind' = [bind EXCEPT ![name] = r.dst]
    /\ allocs' = Append(allocs, u)
    /\ pc' = next
    /\ UNCHANGED <<refs, static, out, reads, frees, unwind, calls, returns,
                   pushes, exit>>

Str55 == LetFrom("str", Hello, 55, "L55", "L58")

Str58 ==
    /\ pc = "L58"
    /\ \E a2 \in {bind["str"].ptr} \cup FreeAddrs(heap) :
          LET r == PushStr(heap, bind["str"], CommaWorld, a2)
          IN /\ heap' = r.heap
             /\ bind' = [bind EXCEPT !["str"] = r.dst]
    /\ pushes' = pushes + 1
    /\ pc' = "L59"
    /\ UNCHANGED <<refs, static, out, reads, frees, allocs, unwind, calls,
                   returns, exit>>

Str59 ==
    /\ pc = "L59"
    /\ out' = Append(out, Value(heap, bind["str"]))
    /\ reads' = Append(reads, [line |-> "L59", binding |-> "str",
                               valid |-> Valid(heap, bind["str"])])
    /\ pc' = "L69"
    /\ UNCHANGED <<refs, static, heap, bind, frees, allocs, unwind, calls,
                   returns, pushes, exit>>

Str69 == LetFrom("s1_69", Hello, 69, "L69", "L70")

Str70 ==
    /\ pc = "L70"
    /\ LET r == Move(bind["s1_69"])
       IN bind' = [bind EXCEPT !["s1_69"] = r.src, !["s2_70"] = r.dst]
    /\ pc' = "L71"
    /\ UNCHANGED <<refs, static, heap, out, reads, frees, allocs, unwind,
                   calls, returns, pushes, exit>>

Str71 ==
    /\ pc = "L71"
    /\ LET r == ExplicitDrop(heap, bind["s2_70"], "s2_70", frees)
       IN /\ heap' = r.heap
          /\ bind' = [bind EXCEPT !["s2_70"] = r.src]
          /\ frees' = r.frees
    /\ pc' = "L92"
    /\ UNCHANGED <<refs, static, out, reads, allocs, unwind, calls, returns,
                   pushes, exit>>

Str92 == LetFrom("s1_92", Hello, 92, "L92", "L93")

Str93 ==
    /\ pc = "L93"
    /\ \E a \in FreeAddrs(heap) :
          LET r == StringClone(heap, bind["s1_92"], a, 93)
          IN /\ heap' = r.heap
             /\ bind' = [bind EXCEPT !["s1_92"] = r.src, !["s2_93"] = r.dst]
    /\ allocs' = Append(allocs, 93)
    /\ pc' = "L94"
    /\ UNCHANGED <<refs, static, out, reads, frees, unwind, calls, returns,
                   pushes, exit>>

Str94 ==
    /\ pc = "L94"
    /\ out' = Append(out, FmtS1 \o Value(heap, bind["s1_92"])
                          \o FmtS2 \o Value(heap, bind["s2_93"]))
    /\ reads' = reads \o
          << [line |-> "L94", binding |-> "s1_92",
              valid |-> Valid(heap, bind["s1_92"])],
             [line |-> "L94", binding |-> "s2_93",
              valid |-> Valid(heap, bind["s2_93"])] >>
    /\ pc' = "L169"
    /\ UNCHANGED <<refs, static, heap, bind, frees, allocs, unwind, calls,
                   returns, pushes, exit>>

\* closing brace of strings(): one step of the drop glue per local; a local
\* that was moved out of (or never initialised) is skipped
Str169 ==
    /\ pc = "L169"
    /\ unwind <= Len(DropOrder)
    /\ LET name == DropOrder[unwind]
           b == bind[name]
       IN IF b.st = "live"
          THEN /\ heap' = Dealloc(heap, b)
               /\ bind' = [bind EXCEPT ![name].st = "dropped"]
               /\ frees' = Append(frees, [unit |-> b.unit, by |-> name,
                                          at |-> "L169"])
          ELSE UNCHANGED <<heap, bind, frees>>
    /\ unwind' = unwind + 1
    /\ IF unwind = Len(DropOrder)
       THEN pc' = "L52" /\ returns' = returns + 1
       ELSE UNCHANGED <<pc, returns>>
    /\ UNCHANGED <<refs, static, out, reads, allocs, calls, pushes, exit>>

Next ==
    \/ Main41 \/ Main44 \/ Main45 \/ Main47 \/ Main49 \/ Main50 \/ Main51
    \/ Main52
    \/ Str55 \/ Str58 \/ Str59 \/ Str69 \/ Str70 \/ Str71 \/ Str92 \/ Str93
    \/ Str94 \/ Str169

Spec == Init /\ [][Next]_vars

\* the scheduler is the processor: a statement that can run does run
FairSpec == Spec /\ WF_vars(Next)

\* ------------------------------------------- the String operations alone
\* texts over Alphabet of length 0..MaxLen
Texts == UNION {[1..n -> Alphabet] : n \in 0..MaxLen}

CloneInit ==
    /\ pc = "c_from"
    /\ refs = [s |-> "unbound", x |-> "unbound"]
    /\ static = StaticInit
    /\ heap = [a \in Addr |-> FreeBlock]
    /\ bind = [b \in Bindings |-> Unbound]
    /\ out = <<>>
    /\ reads = <<>>
    /\ frees = <<>>
    /\ allocs = <<>>
    /\ unwind = 1
    /\ calls = 0
    /\ returns = 0
    /\ pushes = 0
    /\ exit = "running"

\* let s1 = String::from(t), for any text t
CFrom ==
    /\ pc = "c_from"
    /\ \E t \in Texts : \E a \in FreeAddrs(heap) :
          LET r == StringFrom(heap, t, a, 92)
          IN /\ heap' = r.heap
             /\ bind' = [bind EXCEPT !["s1_92"] = r.dst]
    /\ allocs' = Append(allocs, 92)
    /\ pc' = "c_clone"
    /\ UNCHANGED <<refs, static, out, reads, frees, unwind, calls, returns,
                   pushes, exit>>

\* let s2 = s1.clone()
CClone ==
    /\ pc = "c_clone"
    /\ \E a \in FreeAddrs(heap) :
          LET r == StringClone(heap, bind["s1_92"], a, 93)
          IN /\ heap' = r.heap
             /\ bind' = [bind EXCEPT !["s1_92"] = r.src, !["s2_93"] = r.dst]
    /\ allocs' = Append(allocs, 93)
    /\ pc' = "c_push"
    /\ UNCHANGED <<refs, static, out, reads, frees, unwind, calls, returns,
                   pushes, exit>>

\* name.push_str(suffix) on the original or on the duplicate
CPush ==
    /\ pc = "c_push"
    /\ pushes < MaxPush
    /\ \E name \in {"s1_92", "s2_93"} : \E suffix \in Texts :
       \E a2 \in {bind[name].ptr} \cup FreeAddrs(heap) :
          LET r == PushStr(heap, bind[name], suffix, a2)
          IN /\ heap' = r.heap
             /\ bind' = [bind EXCEPT ![name] = r.dst]
    /\ pushes' = pushes + 1
    /\ UNCHANGED <<pc, refs, static, out, reads, frees, allocs, unwind,
                   calls, returns, exit>>

\* end of scope: the duplicate, then the original, are released
CEnd ==
    /\ pc = "c_push"
    /\ LET b2 == bind["s2_93"]
           b1 == bind["s1_92"]
           h2 == Dealloc(heap, b2)
       IN /\ heap' = Dealloc(h2, b1)
          /\ bind' = [bind EXCEPT !["s2_93"].st = "dropped",
                                  !["s1_92"].st = "dropped"]
          /\ frees' = frees \o
                << [unit |-> b2.unit, by |-> "s2_93", at |-> "L169"],
                   [unit |-> b1.unit, by |-> "s1_92", at |-> "L169"] >>
    /\ pc' = "c_done"
    /\ UNCHANGED <<refs, static, out, reads, allocs, unwind, calls, returns,
                   pushes, exit>>

CloneNext == CFrom \/ CClone \/ CPush \/ CEnd

CloneSpec == CloneInit /\ [][CloneNext]_vars

\* =========================================================== properties
IsPrefix(p, q) == Len(p) <= Len(q) /\ SubSeq(q, 1, Len(p)) = p

Count(log, u) == Cardinality({i \in 1..Len(log) : log[i] = u})

FreeCount(u) == Cardinality({i \in 1..Len(frees) : frees[i].unit = u})

Owners(u) == {b \in Bindings : bind[b].st = "live" /\ bind[b].unit = u}

UsedAddrs == {a \in Addr : heap[a].used}

UnitLive(u) == \E a \in Addr : heap[a].used /\ heap[a].unit = u

Units == {55, 69, 92, 93}

ExpectedOutput ==
    << Wow, Howw, Howw,
       <<"h", "e", "l", "l", "o", ",", " ", "w", "o", "r", "l", "d">>,
       <<"s", "1", " ", "=", " ", "h", "e", "l", "l", "o", ",", " ",
         "s", "2", " ", "=", " ", "h", "e", "l", "l", "o">> >>

\* C1: what has been printed is always a prefix of the five expected lines,
\* and when the program has exited it is exactly those five lines.
C1_OutputExact ==
    /\ IsPrefix(out, ExpectedOutput)
    /\ (pc = "exited" => out = ExpectedOutput)

C1_Witness == pc = "exited" /\ Len(out) = 5

\* C2: no storage unit is ever released more often than it was allocated or
\* allocated twice, and once strings() has returned each of the four units
\* was allocated once and released once and no heap block is left in use.
C2_ReleasedExactlyOnce ==
    /\ \A u \in Units : FreeCount(u) <= Count(allocs, u) /\ Count(allocs, u) <= 1
    /\ (pc \in {"L52", "exited"} =>
          /\ \A u \in Units : Count(allocs, u) = 1 /\ FreeCount(u) = 1
          /\ UsedAddrs = {})

C2_Witness == pc = "L52" /\ Len(frees) = 4 /\ Len(allocs) = 4

\* C3: every storage unit and every heap block has at most one live owning
\* binding; after the move of line 70 the unit of line 69 is owned by s2
\* alone; after the clone of line 93 s1 and s2 own different units and blocks.
C3_SingleOwner ==
    /\ \A u \in Units : Cardinality(Owners(u)) <= 1
    /\ \A a \in Addr :
          Cardinality({b \in Bindings : bind[b].st = "live" /\ bind[b].ptr = a}) <= 1
    /\ (pc = "L71" => Owners(69) = {"s2_70"} /\ bind["s1_69"].st = "moved")
    /\ (pc = "L94" =>
          /\ Owners(92) = {"s1_92"}
          /\ Owners(93) = {"s2_93"}
          /\ bind["s1_92"].ptr # bind["s2_93"].ptr)

C3_Witness ==
    /\ pc = "L94"
    /\ bind["s1_69"].st = "moved"
    /\ bind["s1_92"].st = "live"
    /\ bind["s2_93"].st = "live"

\* C4: every read made by a print is of a binding that is valid at that
\* moment, none is of the moved-from s1 of line 69 or of the released s2 of
\* line 70, and from line 92 on neither of these two is a live owner.
C4_NoUseAfterMove ==
    /\ \A i \in 1..Len(reads) :
          reads[i].valid /\ reads[i].binding \notin {"s1_69", "s2_70"}
    /\ (pc \in {"L92", "L93", "L94", "L169", "L52", "exited"} /\ calls = 1 =>
          /\ bind["s1_69"].st = "moved"
          /\ bind["s2_70"].st = "moved"
          /\ ~Valid(heap, bind["s1_69"])
          /\ ~Valid(heap, bind["s2_70"]))

C4_Witness == pc = "L169" /\ Len(reads) = 6 /\ bind["s2_70"].st = "moved"

CloneStepCopies ==
    pc = "c_clone" =>
       /\ Value(heap', bind'["s2_93"]) = Value(heap, bind["s1_92"])
       /\ Value(heap', bind'["s1_92"]) = Value(heap, bind["s1_92"])

PushStepLeavesOther ==
    pc = "c_push" /\ pc' = "c_push" =>
       \/ /\ Value(heap', bind'["s1_92"]) = Value(heap, bind["s1_92"])
          /\ bind'["s1_92"] = bind["s1_92"]
          /\ IsPrefix(Value(heap, bind["s2_93"]), Value(heap', bind'["s2_93"]))
       \/ /\ Value(heap', bind'["s2_93"]) = Value(heap, bind["s2_93"])
          /\ bind'["s2_93"] = bind["s2_93"]
          /\ IsPrefix(Value(heap, bind["s1_92"]), Value(heap', bind'["s1_92"]))

ClonedApart ==
    pc = "c_push" =>
       /\ Valid(heap, bind["s1_92"])
       /\ Valid(heap, bind["s2_93"])
       /\ bind["s1_92"].ptr # bind["s2_93"].ptr
       /\ bind["s1_92"].unit # bind["s2_93"].unit

\* C5: after a clone the original and the duplicate are valid owners of
\* different blocks and units, and a push_str on one of them extends its own
\* text and leaves the text of the other unchanged.
C5_CloneIndependent ==
    /\ []ClonedApart
    /\ [][CloneStepCopies]_vars
    /\ [][PushStepLeavesOther]_vars

C5_Witness ==
    /\ pc = "c_push"
    /\ pushes >= 1
    /\ Value(heap, bind["s1_92"]) # Value(heap, bind["s2_93"])
    /\ Len(Value(heap, bind["s2_93"])) > Len(Value(heap, bind["s1_92"]))

MainPcs == {"L41", "L44", "L45", "L47", "L49", "L50", "L51", "L52"}

MainStepKeepsHeap ==
    pc \in MainPcs =>
       heap' = heap /\ allocs' = allocs /\ frees' = frees /\ bind' = bind

\* C6: the literals are never modified; after line 45 s refers to "howw";
\* after line 49 x refers to "howw" too and s is unchanged; no step of main
\* allocates or releases storage.
C6_RebindFrame ==
    /\ [](static = StaticInit)
    /\ [](pc \in {"L44", "L45"} => refs["s"] = "wow")
    /\ [](pc \in {"L47", "L49"} => refs["s"] = "howw")
    /\ [](pc \in {"L50", "L51"} => refs["x"] = "howw" /\ refs["s"] = "howw")
    /\ [](pc \in MainPcs \ {"L52"} => allocs = <<>> /\ frees = <<>>)
    /\ [][MainStepKeepsHeap]_vars

C6_Witness == pc = "L50" /\ refs["x"] = "howw" /\ refs["s"] = "howw"

ProgramOrder ==
    << "L41", "L44", "L45", "L47", "L49", "L50", "L51",
       "L55", "L58", "L59", "L69", "L70", "L71", "L92", "L93", "L94", "L169",
       "L52", "exited" >>

StepInOrder ==
    \/ pc' = pc
    \/ \E i \in 1..(Len(ProgramOrder) - 1) :
          pc = ProgramOrder[i] /\ pc' = ProgramOrder[i + 1]

\* C7: statements run in program order, one after the other; strings() is
\* called once, after the three prints of main, and returns once; the
\* program reaches its exit, and exits successfully.
C7_SingleStraightRun ==
    /\ [][StepInOrder]_vars
    /\ [](calls <= 1 /\ returns <= calls)
    /\ [](calls = 1 => Len(out) >= 3)
    /\ [](pc = "exited" => calls = 1 /\ returns = 1 /\ exit = "success")
    /\ [](exit # "running" => pc = "exited")
    /\ <>(pc = "exited")

C7_Witness == pc = "exited" /\ calls = 1 /\ returns = 1 /\ exit = "success"

ScopeFrees == SelectSeq(frees, LAMBDA f : f.at = "L169")

\* C8: the releases made at the closing brace of strings() are those of
\* s2 (line 93), s1 (line 92) and str (line 55) and no other; the s1 of
\* line 69 never releases anything, its unit is released once, through s2
\* at line 71.
C8_ScopeEndReleases ==
    /\ \A i \in 1..Len(frees) : frees[i].by # "s1_69"
    /\ \A i \in 1..Len(ScopeFrees) : ScopeFrees[i].by \in {"str", "s1_92", "s2_93"}
    /\ (pc \in {"L52", "exited"} =>
          /\ {ScopeFrees[i].by : i \in 1..Len(ScopeFrees)} = {"str", "s1_92", "s2_93"}
          /\ Len(ScopeFrees) = 3
          /\ {ScopeFrees[i].unit : i \in 1..Len(ScopeFrees)} = {55, 92, 93}
          /\ \E i \in 1..Len(frees) :
                frees[i] = [unit |-> 69, by |-> "s2_70", at |-> "L71"])

C8_Witness == pc = "L52" /\ unwind = Len(DropOrder) + 1 /\ Len(ScopeFrees) = 3

\* C9: at the print of line 94 s1 and s2 are both valid live owners, of two
\* different unreleased blocks, and the text of both is "hello".
C9_BothLiveAtPrint ==
    pc = "L94" =>
       /\ bind["s1_92"].st = "live"
       /\ bind["s2_93"].st = "live"
       /\ Valid(heap, bind["s1_92"])
       /\ Valid(heap, bind["s2_93"])
       /\ bind["s1_92"].ptr # bind["s2_93"].ptr
       /\ FreeCount(92) = 0
       /\ FreeCount(93) = 0
       /\ Value(heap, bind["s1_92"]) = Hello
       /\ Value(heap, bind["s2_93"]) = Hello

C9_Witness == pc = "L94" /\ Len(allocs) = 4

\* C10: the unit of line 69 is released by the drop of line 71 before line
\* 92 runs, str stays valid from its creation to the closing brace, at most
\* three blocks are ever in use, and the unit of line 69 is never in use
\* together with the unit of line 92 or 93.
C10_EarlyDrop ==
    /\ Cardinality(UsedAddrs) <= 3
    /\ ~(UnitLive(69) /\ (UnitLive(92) \/ UnitLive(93)))
    /\ (pc = "L92" =>
          /\ frees = << [unit |-> 69, by |-> "s2_70", at |-> "L71"] >>
          /\ ~UnitLive(69))
    /\ (Count(allocs, 92) = 1 => FreeCount(69) = 1)
    /\ (pc \in {"L58", "L59", "L69", "L70", "L71", "L92", "L93", "L94"} =>
          Valid(heap, bind["str"]) /\ FreeCount(55) = 0)

C10_Witness == pc = "L94" /\ Cardinality(UsedAddrs) = 3 /\ FreeCount(69) = 1

====
